---------------------------- MODULE Spec2Model ----------------------------
(***************************************************************************)
(* State-machine model of backend/server.py (LinkedIn Dream Job Bot).      *)
(*                                                                         *)
(* The three MongoDB collections (cvs, jobs, applications) are the shared  *)
(* state.  Every request handler is a coroutine; it is split into one      *)
(* action per `await`, so that handlers of different requests interleave   *)
(* exactly at the suspension points of the code.                           *)
(*                                                                         *)
(* Abstractions:                                                           *)
(*  - uuid4 identities are the position of the document in its collection; *)
(*  - a text is the set of lower-case tokens that occur in it as           *)
(*    substrings, its length, and the number of matches of each regular    *)
(*    expression the fallback extractors run on it;                        *)
(*  - a float score is an integer number of 1/ScoreScale points.           *)
(***************************************************************************)
EXTENDS Integers, Sequences, FiniteSets, TLC

VARIABLES
    cvs,            \* db.cvs: sequence of CVData documents, insertion order
    jobs,           \* db.jobs: sequence of JobListing documents
    applications,   \* db.applications: sequence of JobApplication documents
    clock,          \* number of CVData objects constructed (datetime.utcnow() order)
    req             \* per request slot: the coroutine's position and locals

vars == <<cvs, jobs, applications, clock, req>>

---------------------------------------------------------------------------
(* Bounds of the model *)

MaxCvs == 1           \* CVData objects constructed in a run
MaxJobs == 2          \* postings stored in a run
MaxResults == 2       \* largest max_results of a search request
MaxApplications == 2  \* Application documents stored in a run
MaxBatch == 2         \* largest max_applications of an auto-apply request
MaxSkills == 3        \* longest skills list of a profile in the scoring runs
MaxMatches == 6       \* most matches of one experience pattern in a text

\* the request slots: two requests may be in progress at the same time
Procs == {1, 2}

(* Program constants *)

SummaryLimit == 200   \* text[:200]
EllipsisLen == 3      \* len("...")
MockCap == 10         \* range(min(max_results, 10))
SkillWeight == 70     \* 70% weight for skills
KeywordBonus == 5     \* sum(5 for keyword in ...)
ScoreCap == 100       \* min(100.0, ...)
DefaultScore == 50    \* return 50.0
ExperienceCap == 5    \* matches[:5]
EducationCap == 3     \* matches[:3]
CoverSkills == 3      \* cv_data.skills[:3]
NumCompanies == 8     \* len(companies)
NumTitles == 5        \* len(job_titles)

\* scores are kept in 1/ScoreScale points, exact for up to 6 profile skills
ScoreScale == 2 * 2 * 3 * 5

---------------------------------------------------------------------------
(* Sequence helpers *)

Range(s) == {s[i] : i \in 1..Len(s)}

Take(s, n) == SubSeq(s, 1, IF n < Len(s) THEN n ELSE Len(s))

Min(a, b) == IF a < b THEN a ELSE b

\* the sequences that list every element of the finite set S exactly once
Permutations_(S) ==
    {f \in [1..Cardinality(S) -> S] : \A x \in S : \E i \in 1..Cardinality(S) : f[i] = x}

---------------------------------------------------------------------------
(* Texts *)

\* str.lower() on the skill labels the model uses
Lower(s) ==
    CASE s = "Python" -> "python"
      [] s = "JavaScript" -> "javascript"
      [] s = "React" -> "react"
      [] s = "Node.js" -> "node.js"
      [] s = "FastAPI" -> "fastapi"
      [] s = "MongoDB" -> "mongodb"
      [] s = "SQL" -> "sql"
      [] s = "Docker" -> "docker"
      [] s = "Kubernetes" -> "kubernetes"
      [] s = "AWS" -> "aws"
      [] s = "Git" -> "git"
      [] s = "Machine Learning" -> "machine learning"
      [] s = "AI" -> "ai"
      [] s = "Data Science" -> "data science"
      [] s = "Project Management" -> "project management"
      [] s = "Leadership" -> "leadership"
      [] s = "Communication" -> "communication"
      [] s = "Problem Solving" -> "problem solving"
      [] OTHER -> s

skills_keywords ==
    << "Python", "JavaScript", "React", "Node.js", "FastAPI", "MongoDB", "SQL",
       "Docker", "Kubernetes", "AWS", "Git", "Machine Learning", "AI", "Data Science",
       "Project Management", "Leadership", "Communication", "Problem Solving" >>

experience_keywords == <<"senior", "lead", "manager", "architect">>

\* A text: len = len(text); words = the lower-case tokens occurring in
\* text.lower(); xp1, xp2 = number of re.findall matches of the two experience
\* patterns; ed1, ed2 = the same for the two education patterns.
MkText(len, words, xp1, xp2, ed1, ed2) ==
    [len |-> len, words |-> words, xp1 |-> xp1, xp2 |-> xp2, ed1 |-> ed1, ed2 |-> ed2]

\* `token in text.lower()`
Contains(words, token) == token \in words

---------------------------------------------------------------------------
(* Profile Analyzer: fallback extractors *)

\* the entries of a sequence that pass a membership test, in order
RECURSIVE FilterIn(_, _)
FilterIn(s, keep) ==
    IF s = <<>> THEN <<>>
    ELSE (IF Head(s) \in keep THEN <<Head(s)>> ELSE <<>>) \o FilterIn(Tail(s), keep)

extract_skills_basic(text) ==
    FilterIn(skills_keywords, {k \in Range(skills_keywords) : Contains(text.words, Lower(k))})

\* the first n matches of pattern number pat, as entries
Matches(pat, n) == [i \in 1..n |-> <<pat, i>>]

PlaceholderExperience == <<"Software Developer 2020-2023", 0>>

extract_experience_basic(text) ==
    LET experiences == Matches("range-role", Min(text.xp1, ExperienceCap))
                       \o Matches("role-range", Min(text.xp2, ExperienceCap))
    IN  IF experiences = <<>> THEN <<PlaceholderExperience>> ELSE experiences

extract_education_basic(text) ==
    Matches("degree", Min(text.ed1, EducationCap))
    \o Matches("institution", Min(text.ed2, EducationCap))

\* text[:200] + "..." if len(text) > 200 else text, by its length
FallbackSummaryLen(text) ==
    IF text.len > SummaryLimit THEN SummaryLimit + EllipsisLen ELSE text.len

---------------------------------------------------------------------------
(* Profile Analyzer: the generative service and analyze_cv_with_ai *)

\* A JSON member as upload_cv sees it: t = "missing" (key absent), "null",
\* "list" (list of strings v), "objlist" (list of objects), "str" (string of
\* length n).
JMissing == [t |-> "missing", v |-> <<>>, n |-> 0]
JNull == [t |-> "null", v |-> <<>>, n |-> 0]
JList(v) == [t |-> "list", v |-> v, n |-> 0]
JObjList == [t |-> "objlist", v |-> <<>>, n |-> 0]
JStr(n) == [t |-> "str", v |-> <<>>, n |-> n]

\* what json.loads returned: a dict with the four members, or another value
JDict(skills, experience, education, summary) ==
    [k |-> "dict", skills |-> skills, experience |-> experience,
     education |-> education, summary |-> summary]

JOther == [k |-> "other", skills |-> JMissing, experience |-> JMissing,
           education |-> JMissing, summary |-> JMissing]

\* A response of chat.send_message in analyze_cv_with_ai:
\*   raised = the call raised (service error, timeout);
\*   fence  = "none" (bare text), "json" (wrapped in ```json ... ```) or
\*            "plain" (wrapped in ``` ... ``` without the json tag);
\*   valid  = the text inside the fence is a JSON document;
\*   value  = what json.loads returns for that document.
Response(raised, fence, valid, value) ==
    [raised |-> raised, fence |-> fence, valid |-> valid, value |-> value]

\* json_text after the two strip steps still starts with a fence marker:
\* only a leading ```json is removed, a leading bare ``` stays
LeadingFenceLeft(response) == response.fence = "plain"

\* json.loads(json_text) raises
JsonLoadsRaises(response) == LeadingFenceLeft(response) \/ ~response.valid

analyze_cv_with_ai(text, response) ==
    IF response.raised \/ JsonLoadsRaises(response)
    THEN JDict(JList(extract_skills_basic(text)),
               JList(extract_experience_basic(text)),
               JList(extract_education_basic(text)),
               JStr(FallbackSummaryLen(text)))
    ELSE response.value

\* analysis.get(key, default)
DictGet(member, default) == IF member.t = "missing" THEN default ELSE member

\* pydantic: the value is accepted for a field of type List[str]
ValidStrList(member) == member.t = "list"

\* pydantic: the value is accepted for a field of type str
ValidStr(member) == member.t = "str"

\* CVData(...) in upload_cv: <<>> when construction raises (analysis is not a
\* dict, or a member fails validation), else the one-element sequence of the
\* CVData object.
MakeCVData(text, analysis, now) ==
    IF analysis.k # "dict" THEN <<>>
    ELSE LET skills == DictGet(analysis.skills, JList(<<>>))
             experience == DictGet(analysis.experience, JList(<<>>))
             education == DictGet(analysis.education, JList(<<>>))
             summary == DictGet(analysis.summary, JStr(0))
         IN  IF ValidStrList(skills) /\ ValidStrList(experience)
                /\ ValidStrList(education) /\ ValidStr(summary)
             THEN << [extracted_text |-> text, skills |-> skills.v,
                      experience |-> experience.v, education |-> education.v,
                      summary |-> summary.n, created_at |-> now] >>
             ELSE <<>>

\* db.cvs.find_one(sort=[("created_at", -1)]): <<>> or the latest document
LatestCv(store) ==
    IF store = <<>> THEN <<>>
    ELSE LET i == CHOOSE i \in 1..Len(store) :
                    \A j \in 1..Len(store) : store[j].created_at <= store[i].created_at
         IN  << [id |-> i, doc |-> store[i]] >>

---------------------------------------------------------------------------
(* Job source and Job Matcher *)

\* tokens of the fixed description and requirements templates (lower-cased)
TemplateWords == {"experienced", "developer", "team", "problem-solving", "experience"}

\* search_jobs_linkedin_scrape: keywords is the set of lower-case tokens of the
\* keywords string; job i (0-based) of the result
RawJob(keywords, i) ==
    [title |-> [t |-> IF i < NumTitles THEN i + 1 ELSE 0, kw |-> keywords],
     company |-> IF i < NumCompanies THEN i + 1 ELSE 0,
     words |-> TemplateWords \cup keywords]

search_jobs_linkedin_scrape(keywords, max_results) ==
    [i \in 1..Min(max_results, MockCap) |-> RawJob(keywords, i - 1)]

\* a scorer that does not divide by the number of skills
ScoreUnnormalised(cv, job) ==
    LET cv_skills == [i \in 1..Len(cv.skills) |-> Lower(cv.skills[i])]
        skill_matches == Cardinality({i \in 1..Len(cv_skills) : Contains(job.words, cv_skills[i])})
    IN  IF cv_skills = <<>> THEN DefaultScore * ScoreScale
        ELSE skill_matches * SkillWeight * ScoreScale

\* a scorer that adds the seniority bonus to the default of a profile
\* without skills
ScoreBonusOnDefault(cv, job) ==
    LET cv_skills == [i \in 1..Len(cv.skills) |-> Lower(cv.skills[i])]
        skill_matches == Cardinality({i \in 1..Len(cv_skills) : Contains(job.words, cv_skills[i])})
        base_score == IF cv_skills = <<>> THEN DefaultScore * ScoreScale
                      ELSE (skill_matches * SkillWeight * ScoreScale) \div Len(cv_skills)
        experience_bonus ==
            KeywordBonus * ScoreScale
            * Cardinality({k \in 1..Len(experience_keywords) :
                   /\ Contains(cv.extracted_text.words, experience_keywords[k])
                   /\ Contains(job.words, experience_keywords[k])})
    IN  Min(ScoreCap * ScoreScale, base_score + experience_bonus)

calculate_job_match_score(cv, job) ==
    LET cv_skills == [i \in 1..Len(cv.skills) |-> Lower(cv.skills[i])]
        skill_matches == Cardinality({i \in 1..Len(cv_skills) : Contains(job.words, cv_skills[i])})
        base_score == (skill_matches * SkillWeight * ScoreScale) \div Len(cv_skills)
        experience_bonus ==
            KeywordBonus * ScoreScale
            * Cardinality({k \in 1..Len(experience_keywords) :
                   /\ Contains(cv.extracted_text.words, experience_keywords[k])
                   /\ Contains(job.words, experience_keywords[k])})
    IN  IF cv_skills = <<>> THEN DefaultScore * ScoreScale
        ELSE Min(ScoreCap * ScoreScale, base_score + experience_bonus)

\* JobListing(...): the applied field takes its default
JobListing(cv, raw_job) ==
    [title |-> raw_job.title, company |-> raw_job.company,
     match_score |-> calculate_job_match_score(cv, raw_job), applied |-> FALSE]

---------------------------------------------------------------------------
(* Cover Letter Synthesizer *)

\* A letter: kind = "ai" (the service's text, of length len) or "fallback"
\* (the template, with its four interpolated values)
NoTitle == [t |-> 0, kw |-> {}]

AiLetter(len) ==
    [kind |-> "ai", len |-> len, title |-> NoTitle, company |-> 0,
     skills |-> <<>>, experience |-> <<>>]

DefaultExperiencePhrase == <<"relevant professional experience", 0>>

FallbackLetter(cv, job) ==
    [kind |-> "fallback", len |-> 1, title |-> job.title, company |-> job.company,
     skills |-> Take(cv.skills, CoverSkills),
     experience |-> IF cv.experience # <<>> THEN <<cv.experience[1]>>
                    ELSE <<DefaultExperiencePhrase>>]

\* A reply of chat.send_message in generate_cover_letter: kind = "letter" (a
\* usable letter), "error" or "timeout" (the call raised), "empty" (an empty
\* text) or "malformed" (a text that is no letter); len = length of the text
Reply(kind) ==
    [kind |-> kind,
     len |-> IF kind \in {"letter", "malformed"} THEN 4 ELSE 0]

ReplyRaised(reply) == reply.kind \in {"error", "timeout"}

\* the returned text is the service's text as it is; only an exception
\* selects the template
generate_cover_letter(cv, job, reply) ==
    IF ReplyRaised(reply) THEN FallbackLetter(cv, job) ELSE AiLetter(reply.len)

---------------------------------------------------------------------------
(* Inputs *)

NoText == MkText(0, {}, 0, 0, 0, 0)

\* the resume of a senior manager who names Python, with three dated roles
\* in each of the two notations and one degree
Texts == { MkText(250, {"python", "senior", "manager"}, 3, 3, 1, 0) }

GoodAnalysis ==
    JDict(JList(<<"Python", "React">>), JList(<<<<"ai", 1>>>>), JList(<<>>), JStr(60))

\* responses of the analysis service
AnalysisResponses ==
    { Response(TRUE, "none", FALSE, JOther),             \* error or timeout
      Response(FALSE, "none", FALSE, JOther),            \* text that is no JSON
      Response(FALSE, "plain", TRUE, GoodAnalysis),      \* ``` fence without tag
      Response(FALSE, "json", TRUE, GoodAnalysis),       \* the asked-for answer
      Response(FALSE, "none", TRUE, JOther),             \* a JSON list or string
      Response(FALSE, "none", TRUE,                      \* the object {}
               JDict(JMissing, JMissing, JMissing, JMissing)),
      Response(FALSE, "json", TRUE,                      \* null skills
               JDict(JNull, JList(<<>>), JList(<<>>), JStr(60))),
      Response(FALSE, "json", TRUE,                      \* experience as objects
               JDict(JList(<<"Python">>), JObjList, JList(<<>>), JStr(60))) }

LetterReplies == {Reply(k) : k \in {"letter", "error", "timeout", "empty", "malformed"}}

\* keywords of a search request, as token sets
KeywordSets == { {"python"}, {"python", "react", "senior"} }

\* min_match_score values of an auto-apply request: 0.0 and the default 70.0
MinScores == {0, 70 * ScoreScale}

---------------------------------------------------------------------------
(* Request slots *)

IdleReq ==
    [pc |-> "idle", kind |-> "none", status |-> 0, cause |-> "none",
     text |-> NoText, cv |-> <<>>,
     max_results |-> 0, keywords |-> {}, listings |-> <<>>,
     job_id |-> 0, job |-> <<>>, cv_doc |-> <<>>, reply |-> Reply("letter"),
     cover_letter |-> <<>>, application_id |-> 0,
     min_match_score |-> 0, max_applications |-> 0, queried |-> FALSE,
     selected |-> <<>>, idx |-> 0, applications_created |-> <<>>,
     attempted |-> <<>>, outcomes |-> <<>>, delays |-> 0]

Free(p) == req[p].pc \in {"idle", "done"}

\* the handler returns (status 200) or raises HTTPException(status): the
\* coroutine and its locals are gone, the response is what is left
Respond(r, status, cause) ==
    [IdleReq EXCEPT !.pc = "done", !.kind = r.kind, !.status = status, !.cause = cause]

---------------------------------------------------------------------------
(* POST /api/upload-cv *)

UploadsInFlight == Cardinality({q \in Procs : req[q].pc = "u_analyze"})

\* the filename test, file.read() and extract_text_from_pdf
UploadStart(p, is_pdf_name, readable, text) ==
    /\ Free(p)
    /\ clock + UploadsInFlight < MaxCvs
    /\ LET r == [IdleReq EXCEPT !.kind = "upload"]
       IN  req' = [req EXCEPT ![p] =
                IF ~is_pdf_name THEN Respond(r, 400, "not-pdf")
                ELSE IF ~readable THEN Respond(r, 500, "unreadable")
                ELSE [r EXCEPT !.pc = "u_analyze", !.text = text]]
    /\ UNCHANGED <<cvs, jobs, applications, clock>>

\* await analyze_cv_with_ai(extracted_text), then CVData(...)
UploadAnalyze(p, response) ==
    /\ req[p].pc = "u_analyze"
    /\ LET r == req[p]
           made == MakeCVData(r.text, analyze_cv_with_ai(r.text, response), clock + 1)
       IN  IF made = <<>>
           THEN /\ req' = [req EXCEPT ![p] = Respond(r, 500, "analysis")]
                /\ clock' = clock
           ELSE /\ req' = [req EXCEPT ![p] = [r EXCEPT !.pc = "u_insert", !.cv = made]]
                /\ clock' = clock + 1
    /\ UNCHANGED <<cvs, jobs, applications>>

\* await db.cvs.insert_one(cv_data.dict())
UploadInsert(p, db_ok) ==
    /\ req[p].pc = "u_insert"
    /\ IF db_ok
       THEN /\ cvs' = Append(cvs, req[p].cv[1])
            /\ req' = [req EXCEPT ![p] = Respond(req[p], 200, "none")]
       ELSE /\ cvs' = cvs
            /\ req' = [req EXCEPT ![p] = Respond(req[p], 500, "persistence")]
    /\ UNCHANGED <<jobs, applications, clock>>

---------------------------------------------------------------------------
(* POST /api/search-jobs *)

\* postings a search in flight may still insert
PendingJobs(r) ==
    IF r.pc = "s_find" THEN Min(r.max_results, MockCap)
    ELSE IF r.pc = "s_insert" THEN Len(r.listings) ELSE 0

RECURSIVE SumPending(_)
SumPending(ps) ==
    IF ps = {} THEN 0
    ELSE LET q == CHOOSE q \in ps : TRUE
         IN  PendingJobs(req[q]) + SumPending(ps \ {q})

SearchStart(p, keywords, max_results) ==
    /\ Free(p)
    /\ Len(jobs) + SumPending(Procs) + Min(max_results, MockCap) <= MaxJobs
    /\ req' = [req EXCEPT ![p] =
            [IdleReq EXCEPT !.kind = "search", !.pc = "s_find",
                            !.keywords = keywords, !.max_results = max_results]]
    /\ UNCHANGED <<cvs, jobs, applications, clock>>

\* await db.cvs.find_one(sort=[("created_at", -1)]), the scrape and the scoring loop
SearchFind(p, db_ok) ==
    /\ req[p].pc = "s_find"
    /\ LET r == req[p]
           latest_cv == LatestCv(cvs)
           raw_jobs == search_jobs_linkedin_scrape(r.keywords, r.max_results)
           job_listings == [i \in 1..Len(raw_jobs) |-> JobListing(latest_cv[1].doc, raw_jobs[i])]
       IN  req' = [req EXCEPT ![p] =
                IF ~db_ok THEN Respond(r, 500, "persistence")
                ELSE IF latest_cv = <<>> THEN Respond(r, 500, "no-cv")
                ELSE IF job_listings = <<>> THEN Respond(r, 200, "none")
                ELSE [r EXCEPT !.pc = "s_insert", !.listings = job_listings]]
    /\ UNCHANGED <<cvs, jobs, applications, clock>>

\* one await db.jobs.insert_one(job.dict()) of the saving loop
SearchInsert(p, db_ok) ==
    /\ req[p].pc = "s_insert"
    /\ LET r == req[p]
           rest == Tail(r.listings)
       IN  IF db_ok
           THEN /\ jobs' = Append(jobs, Head(r.listings))
                /\ req' = [req EXCEPT ![p] =
                        IF rest = <<>> THEN Respond([r EXCEPT !.listings = rest], 200, "none")
                        ELSE [r EXCEPT !.listings = rest]]
           ELSE /\ jobs' = jobs
                /\ req' = [req EXCEPT ![p] = Respond(r, 500, "persistence")]
    /\ UNCHANGED <<cvs, applications, clock>>

---------------------------------------------------------------------------
(* POST /api/auto-apply: the loop around apply_to_job *)

\* cursor.limit(n): 0 means no limit, a negative n limits to -n
CursorLimit(s, n) == IF n = 0 THEN s ELSE Take(s, IF n < 0 THEN -n ELSE n)

\* the filter {"applied": False, "match_score": {"$gte": min_match_score}}
Eligible(store, min_match_score) ==
    {i \in 1..Len(store) : ~store[i].applied /\ store[i].match_score >= min_match_score}

\* the sort direction reversed: ascending by score
SortedAscending(store, ids) ==
    {f \in Permutations_(ids) :
        \A i, j \in 1..Cardinality(ids) :
            i < j => store[f[i]].match_score <= store[f[j]].match_score}

\* .sort("match_score", -1): every order of the ids that is descending by
\* score; the order among equal scores is the store's choice
SortedByScore(store, ids) ==
    {f \in Permutations_(ids) :
        \A i, j \in 1..Cardinality(ids) :
            i < j => store[f[i]].match_score >= store[f[j]].match_score}

\* the lists the find().sort().limit() cursor can deliver, as JobListing objects
WorkingSets(store, min_match_score, max_applications) ==
    {CursorLimit([i \in 1..Len(f) |-> [id |-> f[i], doc |-> store[f[i]]]], max_applications) :
        f \in SortedByScore(store, Eligible(store, min_match_score))}

\* the head of `for job in jobs`: call apply_to_job for the next job, or
\* leave the loop and return the summary
BatchAdvance(r) ==
    IF r.idx < Len(r.selected)
    THEN [r EXCEPT !.idx = r.idx + 1, !.pc = "a_find_job",
                   !.job_id = r.selected[r.idx + 1].id,
                   !.attempted = Append(r.attempted, r.selected[r.idx + 1].id),
                   !.job = <<>>, !.cv_doc = <<>>, !.cover_letter = <<>>,
                   !.application_id = 0]
    ELSE Respond(r, 200, "none")

\* the failure of one job leaves the loop and fails the request
BatchAbortOnFailure(r) == Respond(r, 500, "apply-failed")

\* the sleep placed after the try block: taken on the failure path too
BatchSleepOnFailure(r) == [r EXCEPT !.pc = "b_sleep"]

\* `except Exception` in the loop: print and continue
BatchOnFailure(r) == BatchAdvance(r)

\* the loop body after apply_to_job returned: record the summary, then sleep
BatchOnSuccess(r) ==
    [r EXCEPT !.pc = "b_sleep",
              !.applications_created = Append(r.applications_created,
                    [job_id |-> r.job_id, application_id |-> r.application_id])]

---------------------------------------------------------------------------
(* POST /api/apply-job/{job_id}, also called by the auto-apply loop *)

\* `except Exception as e: raise HTTPException(status_code=500, ...)` around
\* the whole body: every exception, an HTTPException included, leaves as 500
ApplyErrorStatus(raised_status) == 500

\* apply_to_job raises: to the client, or into the auto-apply loop
ApplyRaise(r, raised_status, cause) ==
    IF r.kind = "batch"
    THEN BatchOnFailure([r EXCEPT !.outcomes = Append(r.outcomes, cause)])
    ELSE Respond(r, ApplyErrorStatus(raised_status), cause)

\* apply_to_job returns its result
ApplyReturn(r) ==
    IF r.kind = "batch"
    THEN BatchOnSuccess([r EXCEPT !.outcomes = Append(r.outcomes, "ok")])
    ELSE Respond(r, 200, "none")

ApplyStart(p, job_id) ==
    /\ Free(p)
    /\ Len(applications) < MaxApplications
    /\ req' = [req EXCEPT ![p] =
            [IdleReq EXCEPT !.kind = "apply", !.pc = "a_find_job", !.job_id = job_id]]
    /\ UNCHANGED <<cvs, jobs, applications, clock>>

\* await db.jobs.find_one({"id": job_id})
ApplyFindJob(p, db_ok) ==
    /\ req[p].pc = "a_find_job"
    /\ LET r == req[p]
           job_doc == IF r.job_id \in 1..Len(jobs) THEN <<jobs[r.job_id]>> ELSE <<>>
       IN  req' = [req EXCEPT ![p] =
                IF db_ok THEN [r EXCEPT !.pc = "a_find_cv", !.job = job_doc]
                ELSE ApplyRaise(r, 0, "persistence")]
    /\ UNCHANGED <<cvs, jobs, applications, clock>>

\* await db.cvs.find_one(sort=[("created_at", -1)]) and the not-found test
ApplyFindCv(p, db_ok) ==
    /\ req[p].pc = "a_find_cv"
    /\ LET r == req[p]
           cv_doc == LatestCv(cvs)
       IN  req' = [req EXCEPT ![p] =
                IF ~db_ok THEN ApplyRaise(r, 0, "persistence")
                ELSE IF r.job = <<>> \/ cv_doc = <<>>
                     THEN ApplyRaise([r EXCEPT !.cv_doc = cv_doc], 404, "not-found")
                ELSE [r EXCEPT !.pc = "a_generate", !.cv_doc = cv_doc]]
    /\ UNCHANGED <<cvs, jobs, applications, clock>>

\* await generate_cover_letter(cv_data, job), then JobApplication(...)
ApplyGenerate(p, reply) ==
    /\ req[p].pc = "a_generate"
    /\ LET r == req[p]
       IN  req' = [req EXCEPT ![p] =
                [r EXCEPT !.pc = "a_insert", !.reply = reply,
                          !.cover_letter =
                              <<generate_cover_letter(r.cv_doc[1].doc, r.job[1], reply)>>]]
    /\ UNCHANGED <<cvs, jobs, applications, clock>>

\* the document insert_one stores
JobApplication(r) ==
    [job_id |-> r.job_id, cv_id |-> r.cv_doc[1].id, cover_letter |-> r.cover_letter[1]]

\* an insert guarded by the posting's state: nothing is stored for a posting
\* that is flagged or already has an Application
ApplyInsertGuarded(p, db_ok) ==
    /\ req[p].pc = "a_insert"
    /\ LET r == req[p]
           taken == \/ jobs[r.job_id].applied
                    \/ \E a \in 1..Len(applications) : applications[a].job_id = r.job_id
       IN  IF db_ok /\ ~taken
           THEN /\ Len(applications) < MaxApplications
                /\ applications' = Append(applications, JobApplication(r))
                /\ req' = [req EXCEPT ![p] =
                        [r EXCEPT !.pc = "a_update",
                                  !.application_id = Len(applications) + 1]]
           ELSE /\ applications' = applications
                /\ req' = [req EXCEPT ![p] =
                        IF db_ok THEN [r EXCEPT !.pc = "a_update"]
                        ELSE ApplyRaise(r, 0, "persistence")]
    /\ UNCHANGED <<cvs, jobs, clock>>

\* await db.applications.insert_one(application.dict())
ApplyInsert(p, db_ok) ==
    /\ req[p].pc = "a_insert"
    /\ LET r == req[p]
       IN  IF db_ok
           THEN /\ Len(applications) < MaxApplications
                /\ applications' = Append(applications, JobApplication(r))
                /\ req' = [req EXCEPT ![p] =
                        [r EXCEPT !.pc = "a_update",
                                  !.application_id = Len(applications) + 1]]
           ELSE /\ applications' = applications
                /\ req' = [req EXCEPT ![p] = ApplyRaise(r, 0, "persistence")]
    /\ UNCHANGED <<cvs, jobs, clock>>

\* the update with its filter lost: every posting is flagged
MarkAllApplied(store, job_id) ==
    [i \in 1..Len(store) |-> [store[i] EXCEPT !.applied = TRUE]]

\* update_one({"id": job_id}, {"$set": {"applied": True}}) on the store
MarkApplied(store, job_id) ==
    [i \in 1..Len(store) |-> IF i = job_id THEN [store[i] EXCEPT !.applied = TRUE]
                             ELSE store[i]]

\* await db.jobs.update_one(...), then return
ApplyUpdate(p, db_ok) ==
    /\ req[p].pc = "a_update"
    /\ IF db_ok
       THEN /\ jobs' = MarkApplied(jobs, req[p].job_id)
            /\ req' = [req EXCEPT ![p] = ApplyReturn(req[p])]
       ELSE /\ jobs' = jobs
            /\ req' = [req EXCEPT ![p] = ApplyRaise(req[p], 0, "persistence")]
    /\ UNCHANGED <<cvs, applications, clock>>

---------------------------------------------------------------------------
(* POST /api/auto-apply: the handler's own steps *)

BatchStart(p, min_match_score, max_applications) ==
    /\ Free(p)
    /\ Len(applications) < MaxApplications
    /\ req' = [req EXCEPT ![p] =
            [IdleReq EXCEPT !.kind = "batch", !.pc = "b_query",
                            !.min_match_score = min_match_score,
                            !.max_applications = max_applications]]
    /\ UNCHANGED <<cvs, jobs, applications, clock>>

\* the `async for` over the cursor, the empty test, and the first iteration
BatchQuery(p, db_ok) ==
    /\ req[p].pc = "b_query"
    /\ LET r == req[p]
       IN  IF ~db_ok
           THEN req' = [req EXCEPT ![p] = Respond(r, 500, "persistence")]
           ELSE \E working \in WorkingSets(jobs, r.min_match_score, r.max_applications) :
                    req' = [req EXCEPT ![p] =
                        BatchAdvance([r EXCEPT !.selected = working, !.queried = TRUE])]
    /\ UNCHANGED <<cvs, jobs, applications, clock>>

\* await asyncio.sleep(60), then the next iteration
BatchSleep(p) ==
    /\ req[p].pc = "b_sleep"
    /\ req' = [req EXCEPT ![p] = BatchAdvance([req[p] EXCEPT !.delays = req[p].delays + 1])]
    /\ UNCHANGED <<cvs, jobs, applications, clock>>

---------------------------------------------------------------------------
(* Specification *)

Init ==
    /\ cvs = <<>>
    /\ jobs = <<>>
    /\ applications = <<>>
    /\ clock = 0
    /\ req = [p \in Procs |-> IdleReq]

\* one step of an upload or search request in slot p; the analysis service's
\* answers are drawn from `responses`
StepProfile(p, responses) ==
    \/ \E is_pdf_name, readable \in BOOLEAN, text \in Texts :
           UploadStart(p, is_pdf_name, readable, text)
    \/ \E response \in responses : UploadAnalyze(p, response)
    \/ \E db_ok \in BOOLEAN : UploadInsert(p, db_ok)
    \/ \E keywords \in KeywordSets, max_results \in 0..MaxResults :
           SearchStart(p, keywords, max_results)
    \/ \E db_ok \in BOOLEAN : SearchFind(p, db_ok)
    \/ \E db_ok \in BOOLEAN : SearchInsert(p, db_ok)

\* one step of an apply or auto-apply request in slot p; the letter service's
\* answers are drawn from `replies`
StepApply(p, replies) ==
    \/ \E job_id \in 1..(MaxJobs + 1) : ApplyStart(p, job_id)
    \/ \E db_ok \in BOOLEAN : ApplyFindJob(p, db_ok)
    \/ \E db_ok \in BOOLEAN : ApplyFindCv(p, db_ok)
    \/ \E reply \in replies : ApplyGenerate(p, reply)
    \/ \E db_ok \in BOOLEAN : ApplyInsert(p, db_ok)
    \/ \E db_ok \in BOOLEAN : ApplyUpdate(p, db_ok)
    \/ \E min_match_score \in MinScores, max_applications \in 0..MaxBatch :
           BatchStart(p, min_match_score, max_applications)
    \/ \E db_ok \in BOOLEAN : BatchQuery(p, db_ok)
    \/ BatchSleep(p)

\* Requests overlap: both slots step, interleaved at the suspension points.
\* The analysis service answers as asked and the letter service is down.
Next ==
    \E p \in Procs :
        \/ StepProfile(p, {Response(FALSE, "json", TRUE, GoodAnalysis)})
        \/ StepApply(p, {Reply("error")})

Spec == Init /\ [][Next]_vars

\* One request at a time (a single client that waits for each response), with
\* every answer of the two services.
NextSeq == StepProfile(1, AnalysisResponses) \/ StepApply(1, LetterReplies)

SpecSeq == Init /\ [][NextSeq]_vars

\* the profiles one upload can store: one per text and answer of the
\* analysis service for which CVData(...) is constructed
UploadedCvs ==
    {MakeCVData(tr[1], analyze_cv_with_ai(tr[1], tr[2]), 1)[1] :
        tr \in {tr \in Texts \X AnalysisResponses :
                    MakeCVData(tr[1], analyze_cv_with_ai(tr[1], tr[2]), 1) # <<>>}}

\* the postings stored by searches of one result each, kws[i] the keywords of
\* the i-th search
SearchedJobs(cv, kws) == [i \in 1..Len(kws) |-> JobListing(cv, RawJob(kws[i], 0))]

\* the store after one upload and up to MaxJobs searches of one result each
InitBatch ==
    /\ \E cv \in UploadedCvs, n \in 0..MaxJobs :
           \E kws \in [1..n -> KeywordSets] :
               /\ cvs = <<cv>>
               /\ jobs = SearchedJobs(cv, kws)
    /\ applications = <<>>
    /\ clock = 1
    /\ req = [p \in Procs |-> IdleReq]

\* Apply and auto-apply requests, one at a time, on a store of searched
\* postings; the letter service answers or is down.
NextBatch == StepApply(1, {Reply("letter"), Reply("error")})

SpecBatch == InitBatch /\ [][NextBatch]_vars

---------------------------------------------------------------------------
(* Scoring: searches against every profile an upload can store *)

\* `in` is a substring test: a text that holds "leadership" holds "lead"
SubstringClosed(words) ==
    words \cup (IF "leadership" \in words THEN {"lead"} ELSE {})

\* skill labels the analysis service may answer with: vocabulary members, a
\* label that is also a seniority keyword's superstring, and a label that the
\* posting template itself contains
SkillLabels == {"Python", "Leadership", "developer"}

\* the sequences over S of length n
SeqsOfLen(S, n) == [1..n -> S]

\* skills lists of up to MaxSkills labels, repetitions included
SkillLists == UNION {SeqsOfLen(SkillLabels, n) : n \in 0..MaxSkills}

\* resume texts by the seniority keywords they hold
ScoreTexts ==
    { MkText(250, SubstringClosed(w), 0, 0, 0, 0) :
        w \in { {}, {"senior"}, {"python", "leadership"},
                {"senior", "lead", "manager", "architect"} } }

\* the profiles upload_cv stores when the analysis service answers with a
\* skills list
ScoreCvs ==
    { MakeCVData(text, JDict(JList(skills), JList(<<>>), JList(<<>>), JStr(60)), 1)[1] :
        text \in ScoreTexts, skills \in SkillLists }

\* keywords of a search request: they are interpolated into the description
\* and the requirements of every posting
ScoreKeywordSets ==
    { SubstringClosed(k) :
        k \in { {}, {"python"}, {"senior"}, {"leadership"}, {"python", "senior"},
                {"python", "leadership", "senior", "lead", "manager", "architect"} } }

InitScore ==
    /\ \E cv \in ScoreCvs : cvs = <<cv>>
    /\ jobs = <<>>
    /\ applications = <<>>
    /\ clock = 1
    /\ req = [p \in Procs |-> IdleReq]

\* search requests, one at a time
NextScore ==
    \/ \E keywords \in ScoreKeywordSets, max_results \in 0..MaxResults :
           SearchStart(1, keywords, max_results)
    \/ \E db_ok \in BOOLEAN : SearchFind(1, db_ok)
    \/ \E db_ok \in BOOLEAN : SearchInsert(1, db_ok)

SpecScore == InitScore /\ [][NextScore]_vars

---------------------------------------------------------------------------
(* Fallback extraction: uploads while the analysis service gives no JSON *)

\* resume texts by the number of matches of each experience pattern; a line
\* such as "2019-2021 Software Engineer 2021-2023" matches both
ExperienceTexts ==
    { MkText(250, {}, xp1, xp2, 0, 0) : xp1, xp2 \in 0..MaxMatches }

\* answers after which analyze_cv_with_ai takes its except branch
FailedResponses ==
    { Response(TRUE, "none", FALSE, JOther), Response(FALSE, "none", FALSE, JOther) }

\* upload requests, one at a time
NextExtract ==
    \/ \E is_pdf_name, readable \in BOOLEAN, text \in ExperienceTexts :
           UploadStart(1, is_pdf_name, readable, text)
    \/ \E response \in FailedResponses : UploadAnalyze(1, response)
    \/ \E db_ok \in BOOLEAN : UploadInsert(1, db_ok)

SpecExtract == Init /\ [][NextExtract]_vars

---------------------------------------------------------------------------
(* Properties *)

InBatch(p) == req[p].kind = "batch" /\ req[p].queried /\ req[p].pc # "done"

InApply(p) == req[p].pc \in {"a_find_job", "a_find_cv", "a_generate", "a_insert", "a_update"}

\* number of Application documents that reference posting j
CountApps(j) == Cardinality({a \in 1..Len(applications) : applications[a].job_id = j})

\* number of apply calls of the batch in slot p that returned
OkCount(p) == Cardinality({i \in 1..Len(req[p].outcomes) : req[p].outcomes[i] = "ok"})

\* C1: a run of the auto-apply batch calls apply_to_job at most
\* max_applications times (0 included), and only for postings that had
\* match_score >= min_match_score and applied = false when selected.
C1_BatchWithinLimit ==
    \A p \in Procs :
        InBatch(p) =>
            /\ Len(req[p].attempted) <= req[p].max_applications
            /\ \A i \in 1..Len(req[p].selected) :
                   /\ req[p].selected[i].doc.match_score >= req[p].min_match_score
                   /\ ~req[p].selected[i].doc.applied

\* C2: when apply_to_job fails for one posting of the working set, the next
\* posting of the working set is attempted (the postings are attempted in
\* the working set's order, none skipped), and when the loop is over the
\* batch returns a result (status 200), not an error.
C2_FailureDoesNotAbortBatch ==
    [][\A p \in Procs :
          InBatch(p) =>
              LET r == req[p]
                  failed == /\ InApply(p)
                            /\ \/ req'[p].pc = "done"
                               \/ /\ Len(req'[p].outcomes) = Len(r.outcomes) + 1
                                  /\ req'[p].outcomes[Len(r.outcomes) + 1] # "ok"
              IN  /\ failed /\ r.idx < Len(r.selected) =>
                         /\ req'[p].pc = "a_find_job"
                         /\ req'[p].job_id = r.selected[r.idx + 1].id
                         /\ req'[p].attempted = Append(r.attempted, r.selected[r.idx + 1].id)
                  /\ req'[p].pc = "done" =>
                         /\ req'[p].status = 200
                         /\ r.idx = Len(r.selected)
                         /\ r.attempted = [i \in 1..Len(r.selected) |-> r.selected[i].id]
    ]_vars

\* C2 witness: a batch in which an attempt failed and a later posting was
\* attempted after it
C2_Witness ==
    \E p \in Procs :
        /\ InBatch(p)
        /\ \E i \in 1..Len(req[p].outcomes) :
               req[p].outcomes[i] # "ok" /\ Len(req[p].attempted) > i

\* C3: within one batch run the postings are attempted in non-increasing
\* match_score order, whether or not the attempts succeed.
C3_AttemptsDescending ==
    \A p \in Procs :
        InBatch(p) =>
            \A i, j \in 1..Len(req[p].attempted) :
                i < j => jobs[req[p].attempted[i]].match_score
                         >= jobs[req[p].attempted[j]].match_score

\* C3 witness: a batch whose first attempt failed and whose second attempt is
\* for a posting of a strictly lower score
C3_Witness ==
    \E p \in Procs :
        /\ InBatch(p)
        /\ Len(req[p].attempted) >= 2
        /\ req[p].outcomes # <<>> /\ req[p].outcomes[1] # "ok"
        /\ jobs[req[p].attempted[1]].match_score > jobs[req[p].attempted[2]].match_score

\* C4: a posting is created with applied = false; its flag never goes from
\* true to false; and the flag goes from false to true only in the update
\* step of an apply_to_job call for that posting whose Application document
\* is already stored.
C4_AppliedMonotone ==
    [][/\ Len(jobs') >= Len(jobs)
       /\ \A i \in (Len(jobs) + 1)..Len(jobs') : ~jobs'[i].applied
       /\ \A i \in 1..Len(jobs) :
              /\ jobs[i].applied => jobs'[i].applied
              /\ (~jobs[i].applied /\ jobs'[i].applied) =>
                     \E p \in Procs :
                        /\ req[p].pc = "a_update" /\ req'[p].pc # "a_update"
                        /\ req[p].job_id = i
                        /\ req[p].application_id \in 1..Len(applications)
                        /\ applications[req[p].application_id].job_id = i
    ]_vars

\* C4 witness: a posting flagged applied, with its Application stored
C4_Witness ==
    \E i \in 1..Len(jobs) : jobs[i].applied /\ CountApps(i) >= 1

\* C5: apply_to_job for a job identity without posting, or without any
\* profile, answers NotFound (404), not the generic failure status.
C5_NotFoundSurfaced ==
    \A p \in Procs :
        (req[p].kind = "apply" /\ req[p].pc = "done" /\ req[p].cause = "not-found")
            => req[p].status = 404

\* C6: apply_to_job called for a posting that an earlier, finished call has
\* already applied to adds no second Application: still exactly one
\* Application references the posting.
C6_SequentialIdempotent ==
    \A p \in Procs :
        (req[p].kind = "apply" /\ req[p].pc = "a_update" /\ req[p].job[1].applied)
            => CountApps(req[p].job_id) = 1

\* C7: in a batch the inter-application delay is taken after an attempt if
\* and only if the attempt succeeded: at every attempt the number of delays
\* taken equals the number of earlier successes, a success leads to the
\* delay, and the batch returns only after the delay of a last success or
\* straight from a last failure.
C7_DelayIffSuccess ==
    /\ [](\A p \in Procs :
             InBatch(p) =>
                 /\ Len(req[p].applications_created) = OkCount(p)
                 /\ IF req[p].pc = "b_sleep"
                    THEN /\ req[p].delays + 1 = OkCount(p)
                         /\ req[p].outcomes[Len(req[p].outcomes)] = "ok"
                    ELSE req[p].delays = OkCount(p))
    /\ [][\A p \in Procs :
             InBatch(p) =>
                 /\ OkCount(p)' > OkCount(p) => req'[p].pc = "b_sleep"
                 /\ (req'[p].pc = "done" /\ req[p].pc # "b_sleep") =>
                        InApply(p) /\ req[p].delays = OkCount(p)
       ]_vars

\* C7 witness: a batch whose first attempt failed and was followed by no
\* delay, and whose second attempt succeeded and is now followed by its delay
C7_Witness ==
    \E p \in Procs :
        /\ InBatch(p)
        /\ req[p].pc = "b_sleep"
        /\ Len(req[p].outcomes) = 2
        /\ req[p].outcomes[1] # "ok" /\ req[p].outcomes[2] = "ok"
        /\ req[p].delays = 0

\* C8: nothing guards the applied flag: whenever two overlapping
\* apply_to_job calls (single, or inside a batch) for the same posting have
\* both passed their insert, each has stored its own Application, so two
\* Application documents reference that posting.
C8_OverlapDuplicates ==
    \A p, q \in Procs :
        (p # q /\ req[p].pc = "a_update" /\ req[q].pc = "a_update"
               /\ req[p].job_id = req[q].job_id)
            => /\ req[p].application_id # req[q].application_id
               /\ \A a \in {req[p].application_id, req[q].application_id} :
                      a \in 1..Len(applications)
                      /\ applications[a].job_id = req[p].job_id
               /\ CountApps(req[p].job_id) >= 2

\* C8 witness: a batch run and a single apply overlap on one posting and both
\* have stored an Application
C8_Witness ==
    \E p, q \in Procs :
        /\ req[p].kind = "batch" /\ req[q].kind = "apply"
        /\ req[p].pc = "a_update" /\ req[q].pc = "a_update"
        /\ req[p].job_id = req[q].job_id
        /\ CountApps(req[p].job_id) = 2

\* C9: when the cover-letter service call fails in any way (error, timeout,
\* empty or malformed text), the letter of the application is the fallback
\* template built from the posting's title and company and the profile's
\* skills and first experience entry.
C9_FallbackOnAnyFailure ==
    \A p \in Procs :
        (req[p].pc \in {"a_insert", "a_update"} /\ req[p].reply.kind # "letter")
            => req[p].cover_letter = <<FallbackLetter(req[p].cv_doc[1].doc, req[p].job[1])>>

\* C10: whatever the analysis service answers, the upload of a non-empty
\* text does not fail in the analysis, and every stored profile has a
\* non-empty summary (its three lists are lists by construction).
C10_AlwaysAProfile ==
    /\ \A p \in Procs :
           (req[p].kind = "upload" /\ req[p].pc = "done") => req[p].cause # "analysis"
    /\ \A i \in 1..Len(cvs) : cvs[i].summary > 0

\* the listings a search request holds between scoring and saving
ListingsInFlight == UNION {Range(req[p].listings) : p \in Procs}

\* C11: the score computed for any profile and posting lies in [0, 100]:
\* every listing a search has scored, and every persisted posting, has
\* 0 <= match_score <= 100.
C11_ScoreInRange ==
    \A job \in Range(jobs) \cup ListingsInFlight :
        0 <= job.match_score /\ job.match_score <= 100 * ScoreScale

\* a profile whose only skill is named by one posting and not by another, both
\* persisted: the scores 90 (all skills, four shared seniority keywords) and 0
C11_Witness ==
    /\ Len(cvs[1].skills) = 1
    /\ \E i, j \in 1..Len(jobs) :
           /\ jobs[i].match_score = 90 * ScoreScale
           /\ jobs[j].match_score = 0

\* the reference value of the score, from the counts n, m and b
ReferenceScore(skills, cv_words, posting_words) ==
    LET n == Len(skills)
        m == Cardinality({i \in 1..n : Lower(skills[i]) \in posting_words})
        b == Cardinality({"senior", "lead", "manager", "architect"}
                         \cap cv_words \cap posting_words)
    IN  IF n = 0 THEN 50 * ScoreScale
        ELSE Min(100 * ScoreScale, (70 * m * ScoreScale) \div n + 5 * b * ScoreScale)

\* description + " " + requirements of a posting created from keywords kw
PostingWords(job) == TemplateWords \cup job.title.kw

\* C12: the score equals the reference value: 50 for a profile without
\* skills, whatever the posting and the shared seniority keywords; otherwise
\* min(100, 70 * m / n + 5 * b).
C12_ScoreIsReference ==
    \A job \in Range(jobs) \cup ListingsInFlight :
        job.match_score =
            ReferenceScore(cvs[1].skills, cvs[1].extracted_text.words, PostingWords(job))

\* a profile without skills whose text shares a seniority keyword with a
\* persisted posting
C12_Witness ==
    /\ cvs[1].skills = <<>>
    /\ \E i \in 1..Len(jobs) :
           /\ "senior" \in cvs[1].extracted_text.words \cap PostingWords(jobs[i])
           /\ jobs[i].match_score = 50 * ScoreScale

\* the profiles built by an upload: held by a request or stored
ProfilesBuilt == Range(cvs) \cup UNION {Range(req[p].cv) : p \in Procs}

\* C13: fallback experience extraction returns exactly the placeholder entry
\* when neither pattern matches, and otherwise between one and 5 entries in
\* total, whatever number of matches each of the two patterns has.
C13_ExperienceAtMostFive ==
    \A cv \in ProfilesBuilt :
        IF cv.extracted_text.xp1 = 0 /\ cv.extracted_text.xp2 = 0
        THEN cv.experience = <<PlaceholderExperience>>
        ELSE 1 <= Len(cv.experience) /\ Len(cv.experience) <= 5

\* C14: whenever no apply operation is in progress, every posting referenced
\* by a persisted Application has applied = true, also after an apply that
\* failed at either of its two writes.
C14_ApplicationsAreFlagged ==
    (\A p \in Procs : ~InApply(p)) =>
        \A a \in 1..Len(applications) : jobs[applications[a].job_id].applied

=============================================================================
